---------------------------- MODULE Spec2Model ----------------------------
(***************************************************************************)
(* BhashaChat conversation backend (src/main.py): the session registry,    *)
(* the per-session turn counter and history kept by ConversationManager,   *)
(* the three request handlers that touch them, and the extraction of the   *)
(* final assessment from the text the LLM returns.                         *)
(*                                                                         *)
(* A Python str that the program inspects character by character is a      *)
(* sequence of one-character strings (the backtick is written Backtick).   *)
(* Texts contain no backslash, so JSON string escapes do not occur.        *)
(***************************************************************************)
EXTENDS Integers, Sequences, FiniteSets, TLC

VARIABLES
    conversations,  \* the registry dict: session id -> heap slot, 0 = no key
    heap,           \* ConversationManager objects by slot
    last,           \* the request handled last and its response
    assessments,    \* per object: how many assessments it has returned
    failures,       \* LLM reply calls that raised so far
    raw,            \* parser run: text of the assessment call
    embedded,       \* parser run: the JSON object wrapped inside raw
    parsed,         \* parser run: the assessment returned
    race            \* concurrent run: where each request thread stands

vars == <<conversations, heap, last, assessments, failures, raw, embedded, parsed, race>>

----------------------------------------------------------------------------
(* Python str methods used by the program *)

\* str.strip() whitespace, and the whitespace json skips between tokens
Whitespace == {" ", "\n", "\t"}

Digits == {"0", "1", "2", "3", "4", "5", "6", "7", "8", "9"}

DigitVal(c) ==
    CASE c = "0" -> 0 [] c = "1" -> 1 [] c = "2" -> 2 [] c = "3" -> 3
      [] c = "4" -> 4 [] c = "5" -> 5 [] c = "6" -> 6 [] c = "7" -> 7
      [] c = "8" -> 8 [] c = "9" -> 9

\* old occurs in s at position i
SubSeqAt(s, old, i) ==
    /\ i + Len(old) - 1 <= Len(s)
    /\ SubSeq(s, i, i + Len(old) - 1) = old

\* the first position from i on where old occurs in s; 0 if there is none
find_from(s, old, i) ==
    IF \E j \in i..Len(s) : SubSeqAt(s, old, j)
    THEN CHOOSE j \in i..Len(s) :
            SubSeqAt(s, old, j) /\ \A k \in i..(j - 1) : ~SubSeqAt(s, old, k)
    ELSE 0

RECURSIVE replace_from(_, _, _, _)
replace_from(s, old, new, i) ==
    LET m == find_from(s, old, i)
    IN  IF m = 0 THEN SubSeq(s, i, Len(s))
        ELSE SubSeq(s, i, m - 1) \o new \o replace_from(s, old, new, m + Len(old))

\* s.replace(old, new): leftmost occurrences, left to right, not overlapping
str_replace(s, old, new) == replace_from(s, old, new, 1)

\* the first position from i on that holds no whitespace; Len(s) + 1 if none
skip_ws(s, i) ==
    IF \E j \in i..Len(s) : s[j] \notin Whitespace
    THEN CHOOSE j \in i..Len(s) :
            s[j] \notin Whitespace /\ \A k \in i..(j - 1) : s[k] \in Whitespace
    ELSE Len(s) + 1

\* the last position that holds no whitespace; 0 if none
last_non_ws(s) ==
    IF \E j \in 1..Len(s) : s[j] \notin Whitespace
    THEN CHOOSE j \in 1..Len(s) :
            s[j] \notin Whitespace /\ \A k \in (j + 1)..Len(s) : s[k] \in Whitespace
    ELSE 0

\* s.strip()
str_strip(s) == SubSeq(s, skip_ws(s, 1), last_non_ws(s))

\* c in s
str_contains(s, c) == \E i \in 1..Len(s) : s[i] = c

\* s.index(c), counted from 1
str_index(s, c) ==
    CHOOSE i \in 1..Len(s) : s[i] = c /\ \A j \in 1..(i - 1) : s[j] # c

\* s.rindex(c), counted from 1
str_rindex(s, c) ==
    CHOOSE i \in 1..Len(s) : s[i] = c /\ \A j \in (i + 1)..Len(s) : s[j] # c

\* s[i] == c, false past the end
CharAt(s, i, c) == i >= 1 /\ i <= Len(s) /\ s[i] = c

----------------------------------------------------------------------------
(* json.loads, on texts without string escapes.  Values:                  *)
(*   [t |-> "int", n], [t |-> "float", lit], [t |-> "str", s],            *)
(*   [t |-> "null"], [t |-> "bool", b], [t |-> "arr", a],                 *)
(*   [t |-> "obj", d] with d a function from key to value.                *)

JInt(n) == [t |-> "int", n |-> n]
JStr(s) == [t |-> "str", s |-> s]
JNull == [t |-> "null"]
JObj(d) == [t |-> "obj", d |-> d]

JFail == [ok |-> FALSE]
JOk(v, j) == [ok |-> TRUE, val |-> v, next |-> j]

EmptyDict == [k \in {} |-> JNull]

\* d[key] = v on a dict: a repeated key keeps the last value
DictPut(d, key, v) ==
    [k \in DOMAIN d \cup {key} |-> IF k = key THEN v ELSE d[k]]

\* the closing quote of the string whose content starts at j; 0 if the string
\* is unterminated or holds a control character before the quote
scan_string(s, j) ==
    LET Stop == {"\"", "\n", "\t"}
        e == IF \E k \in j..Len(s) : s[k] \in Stop
             THEN CHOOSE k \in j..Len(s) :
                     s[k] \in Stop /\ \A m \in j..(k - 1) : s[m] \notin Stop
             ELSE 0
    IN  IF e # 0 /\ s[e] = "\"" THEN e ELSE 0

parse_string(s, i) ==
    LET j == scan_string(s, i + 1)
    IN  IF j = 0 THEN JFail ELSE JOk(SubSeq(s, i + 1, j - 1), j + 1)

\* the first position at or after i that holds no digit
digits_end(s, i) ==
    IF \E j \in i..Len(s) : s[j] \notin Digits
    THEN CHOOSE j \in i..Len(s) :
            s[j] \notin Digits /\ \A k \in i..(j - 1) : s[k] \in Digits
    ELSE IF i > Len(s) THEN i ELSE Len(s) + 1

RECURSIVE digits_value(_)
digits_value(ds) ==
    IF ds = <<>> THEN 0
    ELSE 10 * digits_value(SubSeq(ds, 1, Len(ds) - 1)) + DigitVal(ds[Len(ds)])

\* NUMBER_RE = (-?(?:0|[1-9]\d*))(\.\d+)?([eE][-+]?\d+)?
parse_number(s, i) ==
    LET neg == CharAt(s, i, "-")
        a == IF neg THEN i + 1 ELSE i
        intEnd == IF CharAt(s, a, "0") THEN a + 1 ELSE digits_end(s, a)
        fracEnd == IF CharAt(s, intEnd, ".") /\ digits_end(s, intEnd + 1) > intEnd + 1
                   THEN digits_end(s, intEnd + 1)
                   ELSE intEnd
        expDigits == IF CharAt(s, fracEnd + 1, "-") \/ CharAt(s, fracEnd + 1, "+")
                     THEN fracEnd + 2
                     ELSE fracEnd + 1
        expEnd == IF (CharAt(s, fracEnd, "e") \/ CharAt(s, fracEnd, "E"))
                     /\ digits_end(s, expDigits) > expDigits
                  THEN digits_end(s, expDigits)
                  ELSE fracEnd
        magnitude == digits_value(SubSeq(s, a, intEnd - 1))
    IN  IF intEnd = a THEN JFail
        ELSE IF expEnd = intEnd
             THEN JOk(JInt(IF neg THEN 0 - magnitude ELSE magnitude), intEnd)
             ELSE JOk([t |-> "float", lit |-> SubSeq(s, i, expEnd - 1)], expEnd)

RECURSIVE parse_value(_, _)
RECURSIVE parse_members(_, _, _)
RECURSIVE parse_items(_, _, _)

\* JSONObject, from the opening quote of a key at j, with d decoded so far
parse_members(s, j, d) ==
    LET key == parse_string(s, j)
    IN  IF ~key.ok THEN JFail
        ELSE LET c == skip_ws(s, key.next)
             IN  IF ~CharAt(s, c, ":") THEN JFail
                 ELSE LET v == parse_value(s, skip_ws(s, c + 1))
                      IN  IF ~v.ok THEN JFail
                          ELSE LET d2 == DictPut(d, key.val, v.val)
                                   e == skip_ws(s, v.next)
                                   n == skip_ws(s, e + 1)
                               IN  IF CharAt(s, e, "}") THEN JOk(JObj(d2), e + 1)
                                   ELSE IF ~CharAt(s, e, ",") THEN JFail
                                   ELSE IF CharAt(s, n, "\"") THEN parse_members(s, n, d2)
                                   ELSE JFail

\* JSONArray, from the first character of an item at j, with a decoded so far
parse_items(s, j, a) ==
    LET v == parse_value(s, j)
    IN  IF ~v.ok THEN JFail
        ELSE LET a2 == Append(a, v.val)
                 e == skip_ws(s, v.next)
             IN  IF CharAt(s, e, "]") THEN JOk([t |-> "arr", a |-> a2], e + 1)
                 ELSE IF ~CharAt(s, e, ",") THEN JFail
                 ELSE parse_items(s, skip_ws(s, e + 1), a2)

\* scan_once: one JSON value starting at i
parse_value(s, i) ==
    IF i > Len(s) THEN JFail
    ELSE IF s[i] = "\"" THEN
        LET r == parse_string(s, i)
        IN  IF r.ok THEN JOk(JStr(r.val), r.next) ELSE JFail
    ELSE IF s[i] = "{" THEN
        LET j == skip_ws(s, i + 1)
        IN  IF CharAt(s, j, "}") THEN JOk(JObj(EmptyDict), j + 1)
            ELSE IF CharAt(s, j, "\"") THEN parse_members(s, j, EmptyDict)
            ELSE JFail
    ELSE IF s[i] = "[" THEN
        LET j == skip_ws(s, i + 1)
        IN  IF CharAt(s, j, "]") THEN JOk([t |-> "arr", a |-> <<>>], j + 1)
            ELSE parse_items(s, j, <<>>)
    ELSE IF SubSeqAt(s, <<"n", "u", "l", "l">>, i) THEN JOk(JNull, i + 4)
    ELSE IF SubSeqAt(s, <<"t", "r", "u", "e">>, i)
         THEN JOk([t |-> "bool", b |-> TRUE], i + 4)
    ELSE IF SubSeqAt(s, <<"f", "a", "l", "s", "e">>, i)
         THEN JOk([t |-> "bool", b |-> FALSE], i + 5)
    ELSE parse_number(s, i)

\* json.loads(s): one value, whitespace around it, nothing after it
json_loads(s) ==
    LET v == parse_value(s, skip_ws(s, 1))
    IN  IF ~v.ok THEN JFail
        ELSE IF skip_ws(s, v.next) = Len(s) + 1 THEN v
        ELSE JFail

----------------------------------------------------------------------------
(* ConversationManager.get_response: the assessment of the final turn *)

\* 'score'
K_score ==
    <<"s","c","o","r","e">>

\* 'stars'
K_stars ==
    <<"s","t","a","r","s">>

\* 'message'
K_message ==
    <<"m","e","s","s","a","g","e">>

\* 'what_you_did_well'
K_what_you_did_well ==
    <<"w","h","a","t","_","y","o","u","_","d","i","d","_","w","e","l","l">>

\* 'improvement_tip'
K_improvement_tip ==
    <<"i","m","p","r","o","v","e","m","e","n","t","_","t","i","p">>

\* 'what_they_said'
K_what_they_said ==
    <<"w","h","a","t","_","t","h","e","y","_","s","a","i","d">>

\* 'better_way'
K_better_way ==
    <<"b","e","t","t","e","r","_","w","a","y">>

\* 'explanation'
K_explanation ==
    <<"e","x","p","l","a","n","a","t","i","o","n">>

required_fields ==
    {K_score, K_stars, K_message, K_what_you_did_well, K_improvement_tip}

\* a Python dict literal with the three improvement_tip keys
TipDict(said, better, why) ==
    JObj([k \in {K_what_they_said, K_better_way, K_explanation} |->
            IF k = K_what_they_said THEN JStr(said)
            ELSE IF k = K_better_way THEN JStr(better)
            ELSE JStr(why)])

\* a Python dict literal with the five assessment keys
AssessmentDict(score, stars, message, well, tip) ==
    JObj([k \in required_fields |->
            IF k = K_score THEN score
            ELSE IF k = K_stars THEN stars
            ELSE IF k = K_message THEN message
            ELSE IF k = K_what_you_did_well THEN well
            ELSE tip])

\* the fallback's message
FallbackMessage ==
    <<"G","r","e","a","t"," ","j","o","b","!"," ","Y","o","u"," ","c","o",
      "m","p","l","e","t","e","d"," ","t","h","e"," ","p","r","a","c","t",
      "i","c","e"," ","s","e","s","s","i","o","n",".">>

\* the fallback's what_you_did_well
FallbackDidWell ==
    <<"Y","o","u"," ","e","n","g","a","g","e","d"," ","w","e","l","l"," ",
      "i","n"," ","t","h","e"," ","c","o","n","v","e","r","s","a","t","i",
      "o","n"," ","a","n","d"," ","s","h","o","w","e","d"," ","g","o","o",
      "d"," ","u","n","d","e","r","s","t","a","n","d","i","n","g"," ","o",
      "f"," ","t","h","e"," ","t","o","p","i","c",".">>

\* the fallback's what_they_said
FallbackSaid ==
    <<"Y","o","u","r"," ","r","e","s","p","o","n","s","e","s">>

\* the fallback's better_way
FallbackBetter ==
    <<"M","o","r","e"," ","n","a","t","u","r","a","l"," ","p","h","r","a",
      "s","i","n","g"," ","w","i","t","h"," ","c","o","m","p","l","e","t",
      "e"," ","s","e","n","t","e","n","c","e","s">>

\* the fallback's explanation
FallbackWhy ==
    <<"P","r","a","c","t","i","c","e"," ","u","s","i","n","g"," ","f","u",
      "l","l",","," ","p","o","l","i","t","e"," ","s","e","n","t","e","n",
      "c","e","s"," ","i","n"," ","c","o","n","v","e","r","s","a","t","i",
      "o","n">>

\* the assessment returned when the text holds no acceptable object
fallback_assessment ==
    AssessmentDict(JInt(85), JInt(4), JStr(FallbackMessage), JStr(FallbackDidWell),
                   TipDict(FallbackSaid, FallbackBetter, FallbackWhy))

\* the except branch's message
ExceptMessage ==
    <<"W","e","l","l"," ","d","o","n","e","!"," ","Y","o","u"," ","c","o",
      "m","p","l","e","t","e","d"," ","t","h","e"," ","p","r","a","c","t",
      "i","c","e"," ","s","e","s","s","i","o","n",".">>

\* the except branch's what_you_did_well
ExceptDidWell ==
    <<"Y","o","u"," ","p","a","r","t","i","c","i","p","a","t","e","d"," ",
      "a","c","t","i","v","e","l","y"," ","a","n","d"," ","s","h","o","w",
      "e","d"," ","e","f","f","o","r","t"," ","i","n"," ","p","r","a","c",
      "t","i","c","i","n","g",".">>

\* the except branch's what_they_said
ExceptSaid ==
    <<"Y","o","u","r"," ","c","o","n","v","e","r","s","a","t","i","o","n">>

\* the except branch's better_way
ExceptBetter ==
    <<"M","o","r","e"," ","d","e","t","a","i","l","e","d"," ","r","e","s",
      "p","o","n","s","e","s">>

\* the except branch's explanation
ExceptWhy ==
    <<"T","r","y"," ","t","o"," ","e","l","a","b","o","r","a","t","e"," ",
      "m","o","r","e"," ","o","n"," ","y","o","u","r"," ","a","n","s","w",
      "e","r","s">>

\* the assessment returned when anything in the try block raises
except_assessment ==
    AssessmentDict(JInt(80), JInt(4), JStr(ExceptMessage), JStr(ExceptDidWell),
                   TipDict(ExceptSaid, ExceptBetter, ExceptWhy))

\* the backtick character (the module's lexer takes no backtick inside a string)
Backtick == "BACKTICK"

\* the opening fence with its json tag
FenceJson ==
    <<Backtick,Backtick,Backtick,"j","s","o","n">>

\* the bare fence: three backticks
Fence ==
    <<Backtick,Backtick,Backtick>>

\* an LLM call: it raises, or it returns a text
Raises == [ok |-> FALSE]
Returns(text) == [ok |-> TRUE, text |-> text]

\* assessment_text after the strip, the two replace calls and the second strip
cleaned_text(text) ==
    str_strip(str_replace(str_replace(str_strip(text), FenceJson, <<>>), Fence, <<>>))

\* assessment_text[json_start:json_end]
json_candidate(t) == SubSeq(t, str_index(t, "{"), str_rindex(t, "}"))

\* decoded is what json.loads gave for the candidate: an exception lands in
\* the except branch, an object with every required field is returned as it is
accept_decoded(decoded) ==
    IF ~decoded.ok THEN except_assessment
    ELSE IF \A f \in required_fields : f \in DOMAIN decoded.val.d
         THEN decoded.val
         ELSE fallback_assessment

\* t is assessment_text after the clean-up
extract_assessment(t) ==
    IF str_contains(t, "{") /\ str_contains(t, "}")
    THEN accept_decoded(json_loads(json_candidate(t)))
    ELSE fallback_assessment

\* the try block of the final turn: call is the outcome of the assessment call
final_assessment(call) ==
    IF ~call.ok THEN except_assessment
    ELSE extract_assessment(cleaned_text(call.text))

----------------------------------------------------------------------------
(* ConversationManager *)

\* self.max_turns
MaxTurns == 10

UpperCase ==
    <<"A", "B", "C", "D", "E", "F", "G", "H", "I", "J", "K", "L", "M",
      "N", "O", "P", "Q", "R", "S", "T", "U", "V", "W", "X", "Y", "Z">>

LowerCase ==
    <<"a", "b", "c", "d", "e", "f", "g", "h", "i", "j", "k", "l", "m",
      "n", "o", "p", "q", "r", "s", "t", "u", "v", "w", "x", "y", "z">>

\* s.lower()
str_lower(s) ==
    [i \in 1..Len(s) |->
        IF \E k \in 1..Len(UpperCase) : UpperCase[k] = s[i]
        THEN LowerCase[CHOOSE k \in 1..Len(UpperCase) : UpperCase[k] = s[i]]
        ELSE s[i]]

\* ConversationManager(topic, lesson_content, language), language a str
ConversationManager(topic, lesson_content, language) ==
    [topic |-> topic,
     lesson_content |-> lesson_content,
     language |-> str_lower(language),
     history |-> <<>>,
     turn_count |-> 0,
     max_turns |-> MaxTurns]

\* add_message with the role test dropped: every turn is counted
add_message_CountsEveryRole(self, role, content) ==
    [self EXCEPT
        !.history = Append(@, [role |-> role, content |-> content]),
        !.turn_count = @ + 1]

\* add_message counting the assistant turns instead of the user turns
add_message_CountsAssistant(self, role, content) ==
    [self EXCEPT
        !.history = Append(@, [role |-> role, content |-> content]),
        !.turn_count = IF role = "assistant" THEN @ + 1 ELSE @]

add_message(self, role, content) ==
    [self EXCEPT
        !.history = Append(@, [role |-> role, content |-> content]),
        !.turn_count = IF role = "user" THEN @ + 1 ELSE @]

\* the slice taken one turn short
assessment_history_OneShort(history) ==
    SubSeq(history, IF Len(history) > 19 THEN Len(history) - 18 ELSE 1, Len(history))

\* self.history[-20:], the turns that json.dumps writes into the assessment
\* prompt, in the order of the list
assessment_history(history) ==
    SubSeq(history, IF Len(history) > 20 THEN Len(history) - 19 ELSE 1, Len(history))

\* get_response making the assessment call on every turn
get_response_AlwaysAssesses(self, user_message, reply, assess) ==
    LET s1 == add_message(self, "user", user_message)
    IN  IF ~reply.ok
        THEN [self |-> s1, raised |-> TRUE, llm_calls |-> 1, failed |-> TRUE,
              reply |-> reply, assessment_turns |-> <<>>]
        ELSE LET assistant_message == str_strip(reply.text)
                 s2 == add_message(s1, "assistant", assistant_message)
                 is_final == s2.turn_count >= s2.max_turns
             IN  IF is_final
                 THEN [self |-> s2, raised |-> FALSE, llm_calls |-> 2,
                       failed |-> ~assess.ok, reply |-> reply,
                       assessment_turns |-> assessment_history(s2.history),
                       result |-> [is_final |-> TRUE,
                                   assessment |-> final_assessment(assess)]]
                 ELSE [self |-> s2, raised |-> FALSE, llm_calls |-> 2,
                       failed |-> ~assess.ok, reply |-> reply,
                       assessment_turns |-> <<>>,
                       result |-> [is_final |-> FALSE,
                                   message |-> assistant_message]]

\* get_response returning the reply text as the model gave it, the history
\* holding the stripped text
get_response_Unstripped(self, user_message, reply, assess) ==
    LET s1 == add_message(self, "user", user_message)
    IN  IF ~reply.ok
        THEN [self |-> s1, raised |-> TRUE, llm_calls |-> 1, failed |-> TRUE,
              reply |-> reply, assessment_turns |-> <<>>]
        ELSE LET assistant_message == str_strip(reply.text)
                 s2 == add_message(s1, "assistant", assistant_message)
                 is_final == s2.turn_count >= s2.max_turns
             IN  IF is_final
                 THEN [self |-> s2, raised |-> FALSE, llm_calls |-> 2,
                       failed |-> ~assess.ok, reply |-> reply,
                       assessment_turns |-> assessment_history(s2.history),
                       result |-> [is_final |-> TRUE,
                                   assessment |-> final_assessment(assess)]]
                 ELSE [self |-> s2, raised |-> FALSE, llm_calls |-> 1,
                       failed |-> FALSE, reply |-> reply,
                       assessment_turns |-> <<>>,
                       result |-> [is_final |-> FALSE,
                                   message |-> reply.text]]

\* get_response final only on the turn that reaches max_turns
get_response_FinalOnlyAtMax(self, user_message, reply, assess) ==
    LET s1 == add_message(self, "user", user_message)
    IN  IF ~reply.ok
        THEN [self |-> s1, raised |-> TRUE, llm_calls |-> 1, failed |-> TRUE,
              reply |-> reply, assessment_turns |-> <<>>]
        ELSE LET assistant_message == str_strip(reply.text)
                 s2 == add_message(s1, "assistant", assistant_message)
                 is_final == s2.turn_count = s2.max_turns
             IN  IF is_final
                 THEN [self |-> s2, raised |-> FALSE, llm_calls |-> 2,
                       failed |-> ~assess.ok, reply |-> reply,
                       assessment_turns |-> assessment_history(s2.history),
                       result |-> [is_final |-> TRUE,
                                   assessment |-> final_assessment(assess)]]
                 ELSE [self |-> s2, raised |-> FALSE, llm_calls |-> 1,
                       failed |-> FALSE, reply |-> reply,
                       assessment_turns |-> <<>>,
                       result |-> [is_final |-> FALSE,
                                   message |-> assistant_message]]

\* get_response that never takes the final branch
get_response_NeverAssesses(self, user_message, reply, assess) ==
    LET s1 == add_message(self, "user", user_message)
    IN  IF ~reply.ok
        THEN [self |-> s1, raised |-> TRUE, llm_calls |-> 1, failed |-> TRUE,
              reply |-> reply, assessment_turns |-> <<>>]
        ELSE LET assistant_message == str_strip(reply.text)
                 s2 == add_message(s1, "assistant", assistant_message)
                 is_final == FALSE
             IN  IF is_final
                 THEN [self |-> s2, raised |-> FALSE, llm_calls |-> 2,
                       failed |-> ~assess.ok, reply |-> reply,
                       assessment_turns |-> assessment_history(s2.history),
                       result |-> [is_final |-> TRUE,
                                   assessment |-> final_assessment(assess)]]
                 ELSE [self |-> s2, raised |-> FALSE, llm_calls |-> 1,
                       failed |-> FALSE, reply |-> reply,
                       assessment_turns |-> <<>>,
                       result |-> [is_final |-> FALSE,
                                   message |-> assistant_message]]

\* reply and assess are the outcomes of the two generate_content calls; the
\* second is made on a final turn only.  raised: the reply call's exception
\* leaves get_response.  llm_calls counts the generate_content calls made,
\* failed says that one of them raised, reply is the outcome of the first,
\* assessment_turns are the turns written into the assessment prompt.
get_response(self, user_message, reply, assess) ==
    LET s1 == add_message(self, "user", user_message)
    IN  IF ~reply.ok
        THEN [self |-> s1, raised |-> TRUE, llm_calls |-> 1, failed |-> TRUE,
              reply |-> reply, assessment_turns |-> <<>>]
        ELSE LET assistant_message == str_strip(reply.text)
                 s2 == add_message(s1, "assistant", assistant_message)
                 is_final == s2.turn_count >= s2.max_turns
             IN  IF is_final
                 THEN [self |-> s2, raised |-> FALSE, llm_calls |-> 2,
                       failed |-> ~assess.ok, reply |-> reply,
                       assessment_turns |-> assessment_history(s2.history),
                       result |-> [is_final |-> TRUE,
                                   assessment |-> final_assessment(assess)]]
                 ELSE [self |-> s2, raised |-> FALSE, llm_calls |-> 1,
                       failed |-> FALSE, reply |-> reply,
                       assessment_turns |-> <<>>,
                       result |-> [is_final |-> FALSE,
                                   message |-> assistant_message]]

----------------------------------------------------------------------------
(* The language tables.  Each is a dict read with .get and a default.      *)

L_english == <<"e", "n", "g", "l", "i", "s", "h">>
L_hindi == <<"h", "i", "n", "d", "i">>
L_kannada == <<"k", "a", "n", "n", "a", "d", "a">>
L_tamil == <<"t", "a", "m", "i", "l">>
L_telugu == <<"t", "e", "l", "u", "g", "u">>
L_malayalam == <<"m", "a", "l", "a", "y", "a", "l", "a", "m">>
L_bengali == <<"b", "e", "n", "g", "a", "l", "i">>

\* d.get(key, default)
dict_get(d, key, default) == IF key \in DOMAIN d THEN d[key] ELSE default

tts_lang_map ==
    (L_english :> "en") @@ (L_hindi :> "hi") @@ (L_kannada :> "kn")
    @@ (L_tamil :> "ta") @@ (L_telugu :> "te") @@ (L_malayalam :> "ml")
    @@ (L_bengali :> "bn")

\* the lang given to gTTS by text_to_speech(text, language)
text_to_speech(language) == dict_get(tts_lang_map, language, "en")

\* the language_map of transcribe_audio
language_map ==
    (L_english :> "en-US") @@ (L_hindi :> "hi-IN") @@ (L_kannada :> "kn-IN")
    @@ (L_tamil :> "ta-IN") @@ (L_telugu :> "te-IN") @@ (L_malayalam :> "ml-IN")
    @@ (L_bengali :> "bn-IN")

\* the language_code transcribe_audio gives to the recognizer
transcribe_audio_language_code(language) ==
    dict_get(language_map, str_lower(language), "en-US")

\* language_configs of get_system_prompt, each profile by its ASCII name
language_configs ==
    (L_english :> "English") @@ (L_hindi :> "Hindi") @@ (L_kannada :> "Kannada")
    @@ (L_tamil :> "Tamil") @@ (L_telugu :> "Telugu")
    @@ (L_malayalam :> "Malayalam") @@ (L_bengali :> "Bengali")

\* the config get_system_prompt writes the prompt from
get_system_prompt_config(self) == dict_get(language_configs, self.language, "English")

----------------------------------------------------------------------------
(* The registry and the request handlers.  A handler is given the registry *)
(* and the heap and returns both with its response; llm_calls counts the   *)
(* generate_content calls it made, slot is the object it worked on,        *)
(* returned says that get_response came back to it, with result; failed,   *)
(* reply and assessment_turns are those of get_response, tts_lang is the   *)
(* lang of its text_to_speech call ("none": no such call).                 *)

SessionIds == {"s1", "s2"}

\* one slot more than keys: the new object exists before the old one is dropped
Slots == 1..(Cardinality(SessionIds) + 1)

NoObject == [free |-> TRUE]

\* where a new object is placed
new_slot(hp) == CHOOSE o \in Slots : hp[o] = NoObject /\ \A p \in 1..(o - 1) : hp[p] # NoObject

\* the object at slot o lost its only reference (o = 0: there was none)
release(hp, o) == IF o = 0 THEN hp ELSE [hp EXCEPT ![o] = NoObject]

\* the first user message, sent by start_session
Greeting ==
    <<"H","e","l","l","o",","," ","I","'","m"," ","r","e","a","d","y"," ",
      "t","o"," ","p","r","a","c","t","i","c","e","!">>

\* start_session emptying the registry before it registers the new object
start_session_respond_ResetsRegistry(convs, hp, session_id, language, o, out) ==
    [conversations |-> [id \in SessionIds |-> IF id = session_id THEN o ELSE 0],
     heap |-> [p \in Slots |-> IF p = o THEN out.self ELSE NoObject],
     llm_calls |-> out.llm_calls,
     slot |-> o,
     returned |-> ~out.raised,
     result |-> IF out.raised THEN [is_final |-> FALSE] ELSE out.result,
     failed |-> out.failed,
     reply |-> out.reply,
     assessment_turns |-> out.assessment_turns,
     tts_lang |-> IF out.raised \/ out.result.is_final THEN "none"
                  ELSE text_to_speech(language),
     response |->
        IF out.raised
        THEN [status |-> "error", code |-> 500, message |-> "LLMError"]
        ELSE IF out.result.is_final
        THEN [status |-> "error", code |-> 500, message |-> "KeyError"]
        ELSE [status |-> "success", code |-> 200, session_id |-> session_id,
              initial_message |-> out.result.message]]

\* start_session once the new object, placed at o, has answered the greeting
\* with out: the registry holds the new object whether or not the call raised
start_session_respond(convs, hp, session_id, language, o, out) ==
    [conversations |-> [convs EXCEPT ![session_id] = o],
     heap |-> [release(hp, convs[session_id]) EXCEPT ![o] = out.self],
     llm_calls |-> out.llm_calls,
     slot |-> o,
     returned |-> ~out.raised,
     result |-> IF out.raised THEN [is_final |-> FALSE] ELSE out.result,
     failed |-> out.failed,
     reply |-> out.reply,
     assessment_turns |-> out.assessment_turns,
     tts_lang |-> IF out.raised \/ out.result.is_final THEN "none"
                  ELSE text_to_speech(language),
     response |->
        IF out.raised
        THEN [status |-> "error", code |-> 500, message |-> "LLMError"]
        ELSE IF out.result.is_final
        THEN \* initial_response['message'] on a final result
             [status |-> "error", code |-> 500, message |-> "KeyError"]
        ELSE [status |-> "success", code |-> 200, session_id |-> session_id,
              initial_message |-> out.result.message]]

start_session(convs, hp, session_id, topic, lesson_content, language, reply, assess) ==
    IF language.t # "str"
    THEN \* language.lower() raises in the constructor, before the registry is written
         [conversations |-> convs, heap |-> hp, llm_calls |-> 0, slot |-> 0,
          returned |-> FALSE, result |-> [is_final |-> FALSE],
          failed |-> FALSE, reply |-> Raises, assessment_turns |-> <<>>,
          tts_lang |-> "none",
          response |-> [status |-> "error", code |-> 500, message |-> "AttributeError"]]
    ELSE start_session_respond(convs, hp, session_id, language.s, new_slot(hp),
            get_response(ConversationManager(topic, lesson_content, language.s),
                         Greeting, reply, assess))

\* send_message putting the object back as it was when the reply call raised
send_message_respond_RollsBack(convs, hp, o, out) ==
    [conversations |-> convs,
     heap |-> IF out.raised THEN hp ELSE [hp EXCEPT ![o] = out.self],
     llm_calls |-> out.llm_calls,
     slot |-> o,
     returned |-> ~out.raised,
     result |-> IF out.raised THEN [is_final |-> FALSE] ELSE out.result,
     failed |-> out.failed,
     reply |-> out.reply,
     assessment_turns |-> out.assessment_turns,
     tts_lang |-> IF out.raised \/ out.result.is_final THEN "none"
                  ELSE text_to_speech(out.self.language),
     response |->
        IF out.raised
        THEN [status |-> "error", code |-> 200, message |-> "LLMError"]
        ELSE [status |-> "success", code |-> 200, response |-> out.result,
              turn_count |-> out.self.turn_count,
              max_turns |-> out.self.max_turns]]

\* send_message once the object at o has answered with out
send_message_respond(convs, hp, o, out) ==
    [conversations |-> convs,
     heap |-> [hp EXCEPT ![o] = out.self],
     llm_calls |-> out.llm_calls,
     slot |-> o,
     returned |-> ~out.raised,
     result |-> IF out.raised THEN [is_final |-> FALSE] ELSE out.result,
     failed |-> out.failed,
     reply |-> out.reply,
     assessment_turns |-> out.assessment_turns,
     tts_lang |-> IF out.raised \/ out.result.is_final THEN "none"
                  ELSE text_to_speech(out.self.language),
     response |->
        IF out.raised
        THEN [status |-> "error", code |-> 200, message |-> "LLMError"]
        ELSE [status |-> "success", code |-> 200, response |-> out.result,
              turn_count |-> out.self.turn_count,
              max_turns |-> out.self.max_turns]]

\* send_message with the registry test dropped and the object made on demand
send_message_CreatesOnDemand(convs, hp, session_id, user_message, reply, assess) ==
    IF convs[session_id] = 0
    THEN start_session_respond(convs, hp, session_id, L_english, new_slot(hp),
            get_response(ConversationManager("", "", L_english), user_message, reply, assess))
    ELSE send_message_respond(convs, hp, convs[session_id],
            get_response(hp[convs[session_id]], user_message, reply, assess))

send_message(convs, hp, session_id, user_message, reply, assess) ==
    IF convs[session_id] = 0
    THEN [conversations |-> convs, heap |-> hp, llm_calls |-> 0, slot |-> 0,
          returned |-> FALSE, result |-> [is_final |-> FALSE],
          failed |-> FALSE, reply |-> Raises, assessment_turns |-> <<>>,
          tts_lang |-> "none",
          response |-> [status |-> "error", code |-> 200, message |-> "Session not found"]]
    ELSE send_message_respond(convs, hp, convs[session_id],
            get_response(hp[convs[session_id]], user_message, reply, assess))

\* end_session with the membership test dropped: del raises on a missing key
end_session_Unguarded(convs, hp, session_id) ==
    IF convs[session_id] # 0
    THEN [conversations |-> [convs EXCEPT ![session_id] = 0],
          heap |-> release(hp, convs[session_id]), llm_calls |-> 0, slot |-> 0,
          returned |-> FALSE, result |-> [is_final |-> FALSE],
          failed |-> FALSE, reply |-> Raises, assessment_turns |-> <<>>,
          tts_lang |-> "none",
          response |-> [status |-> "success", code |-> 200]]
    ELSE [conversations |-> convs, heap |-> hp, llm_calls |-> 0, slot |-> 0,
          returned |-> FALSE, result |-> [is_final |-> FALSE],
          failed |-> FALSE, reply |-> Raises, assessment_turns |-> <<>>,
          tts_lang |-> "none",
          response |-> [status |-> "error", code |-> 500, message |-> "KeyError"]]

end_session(convs, hp, session_id) ==
    IF convs[session_id] # 0
    THEN [conversations |-> [convs EXCEPT ![session_id] = 0],
          heap |-> release(hp, convs[session_id]), llm_calls |-> 0, slot |-> 0,
          returned |-> FALSE, result |-> [is_final |-> FALSE],
          failed |-> FALSE, reply |-> Raises, assessment_turns |-> <<>>,
          tts_lang |-> "none",
          response |-> [status |-> "success", code |-> 200]]
    ELSE [conversations |-> convs, heap |-> hp, llm_calls |-> 0, slot |-> 0,
          returned |-> FALSE, result |-> [is_final |-> FALSE],
          failed |-> FALSE, reply |-> Raises, assessment_turns |-> <<>>,
          tts_lang |-> "none",
          response |-> [status |-> "success", code |-> 200]]

----------------------------------------------------------------------------
(* Requests and LLM outcomes the runs draw from *)

\* most reply calls that raise in one run
MaxFail == 1

\* send_message is cut off once the live sessions together have counted
\* this many user turns
MaxTurnCap == 11

DefaultTopic == "Ordering at a Cafe"
DefaultLesson == "Basic cafe ordering phrases and polite requests"

\* request field language: a string in mixed case, or a JSON number
LanguageInputs == {JStr(<<"H", "i", "n", "d", "i">>), JInt(5)}

UserMessages == {<<"h", "i">>}

\* a reply with whitespace around it
ReplyTexts == {<<" ", "o", "k", "\n">>}

ReplyCalls == {Raises} \cup {Returns(r) : r \in ReplyTexts}

\* {"score":90,"stars":5,"message":"ok","what_you_did_well":"ok","improvement_tip":{}}
AcceptableText ==
    <<"{", "\"", "s", "c", "o", "r", "e", "\"", ":", "9", "0", ",",
      "\"", "s", "t", "a", "r", "s", "\"", ":", "5", ",",
      "\"", "m", "e", "s", "s", "a", "g", "e", "\"", ":", "\"", "o", "k", "\"", ",",
      "\"", "w", "h", "a", "t", "_", "y", "o", "u", "_", "d", "i", "d", "_",
      "w", "e", "l", "l", "\"", ":", "\"", "o", "k", "\"", ",",
      "\"", "i", "m", "p", "r", "o", "v", "e", "m", "e", "n", "t", "_", "t", "i", "p",
      "\"", ":", "{", "}", "}">>

AssessCalls == {Raises, Returns(<<"o", "k">>), Returns(AcceptableText)}

----------------------------------------------------------------------------
(* The server: one request at a time *)

NotParsed == [done |-> FALSE]
NoDocument == [t |-> "none"]

\* the request threads of the concurrent runs
Threads == {"t1", "t2"}

\* no concurrent requests
NoRace == [before |-> 0, thread |-> [t \in Threads |-> [pc |-> "idle"]]]

Init ==
    /\ conversations = [id \in SessionIds |-> 0]
    /\ heap = [o \in Slots |-> NoObject]
    /\ last = [op |-> "none"]
    /\ assessments = [o \in Slots |-> 0]
    /\ failures = 0
    /\ raw = <<>>
    /\ embedded = NoDocument
    /\ parsed = NotParsed
    /\ race = NoRace

\* get_response returned a final result to the handler
ReturnedFinal(out) == out.returned /\ out.result.is_final

\* the handler's outcome out becomes the state; reply is the outcome drawn
\* for its reply call
Handled(op, session_id, reply, out) ==
    /\ conversations' = out.conversations
    /\ heap' = out.heap
    /\ last' = [op |-> op, session_id |-> session_id,
                found |-> conversations[session_id] # 0,
                llm_calls |-> out.llm_calls,
                failed |-> out.failed,
                reply |-> out.reply,
                assessment_turns |-> out.assessment_turns,
                tts_lang |-> out.tts_lang,
                response |-> out.response]
    /\ assessments' =
          [o \in Slots |->
              IF out.heap[o] = NoObject THEN 0
              ELSE assessments[o]
                   + (IF o = out.slot /\ ReturnedFinal(out) THEN 1 ELSE 0)]
    /\ failures' = failures + (IF out.llm_calls > 0 /\ ~reply.ok THEN 1 ELSE 0)
    /\ UNCHANGED <<raw, embedded, parsed, race>>

\* the user turns counted by the live objects among slots
RECURSIVE TurnsCounted(_)
TurnsCounted(slots) ==
    IF slots = {} THEN 0
    ELSE LET o == CHOOSE x \in slots : TRUE
         IN  (IF heap[o] = NoObject THEN 0 ELSE heap[o].turn_count)
             + TurnsCounted(slots \ {o})

StartSession ==
    \E session_id \in SessionIds, language \in LanguageInputs,
       reply \in ReplyCalls, assess \in AssessCalls :
        /\ ~reply.ok => failures < MaxFail
        /\ Handled("start_session", session_id, reply,
                   start_session(conversations, heap, session_id, DefaultTopic,
                                 DefaultLesson, language, reply, assess))

SendMessage ==
    \E session_id \in SessionIds, user_message \in UserMessages,
       reply \in ReplyCalls, assess \in AssessCalls :
        /\ ~reply.ok => failures < MaxFail
        /\ conversations[session_id] # 0 => TurnsCounted(Slots) < MaxTurnCap
        /\ Handled("send_message", session_id, reply,
                   send_message(conversations, heap, session_id, user_message,
                                reply, assess))

EndSession ==
    \E session_id \in SessionIds :
        Handled("end_session", session_id, Raises,
                end_session(conversations, heap, session_id))

Next == StartSession \/ SendMessage \/ EndSession

Spec == Init /\ [][Next]_vars

----------------------------------------------------------------------------
(* The assessment parser alone: the texts the assessment call may return.  *)
(* A document is a JSON object written down member by member; Encode      *)
(* writes it as text, DocValue is the object it denotes.                   *)

Doc(members) == [t |-> "doc", members |-> members]

DigitChar(n) == CHOOSE c \in Digits : DigitVal(c) = n

RECURSIVE NatText(_)
NatText(n) ==
    IF n < 10 THEN <<DigitChar(n)>>
    ELSE NatText(n \div 10) \o <<DigitChar(n % 10)>>

RECURSIVE DocValue(_)
DocValue(tr) ==
    IF tr.t # "doc" THEN tr
    ELSE JObj([k \in {tr.members[i][1] : i \in 1..Len(tr.members)} |->
                DocValue(tr.members[CHOOSE i \in 1..Len(tr.members) :
                                        tr.members[i][1] = k][2])])

\* gap: the whitespace written after each brace, comma and colon
RECURSIVE Encode(_, _)
RECURSIVE EncodeMembers(_, _, _)
Encode(tr, gap) ==
    CASE tr.t = "int" ->
            IF tr.n < 0 THEN <<"-">> \o NatText(0 - tr.n) ELSE NatText(tr.n)
      [] tr.t = "float" -> tr.lit
      [] tr.t = "str" -> <<"\"">> \o tr.s \o <<"\"">>
      [] tr.t = "null" -> <<"n", "u", "l", "l">>
      [] tr.t = "doc" ->
            IF tr.members = <<>> THEN <<"{", "}">>
            ELSE <<"{">> \o gap \o EncodeMembers(tr.members, gap, 1) \o gap \o <<"}">>

EncodeMembers(ms, gap, i) ==
    <<"\"">> \o ms[i][1] \o <<"\"", ":">> \o gap \o Encode(ms[i][2], gap)
    \o (IF i = Len(ms) THEN <<>>
        ELSE <<",">> \o gap \o EncodeMembers(ms, gap, i + 1))

Ok == <<"o", "k">>

Scores == {JInt(90), JInt(150), JStr(<<"h", "i", "g", "h">>),
           [t |-> "float", lit |-> <<"8", "5", ".", "5">>]}

Stars == {JInt(5), JInt(9), JNull}

\* the second and third hold a fence marker inside the string
Messages == {JStr(Ok),
             JStr(<<"a", Backtick, Backtick, Backtick, "b">>),
             JStr(<<"a", " ">> \o FenceJson),
             JNull}

Tips == {Doc(<<>>),
         Doc(<< <<K_what_they_said, JStr(Ok)>>, <<K_better_way, JStr(Ok)>>,
                <<K_explanation, JStr(Ok)>> >>)}

\* objects with every required field
CompleteDocs ==
    {Doc(<< <<K_score, sc>>, <<K_stars, st>>, <<K_message, m>>,
            <<K_what_you_did_well, JStr(Ok)>>, <<K_improvement_tip, tip>> >>) :
        sc \in Scores, st \in Stars, m \in Messages, tip \in Tips}

\* objects that lack a required field
PartialDocs ==
    {Doc(<<>>),
     Doc(<< <<K_score, JInt(90)>>, <<K_message, JStr(Ok)>>,
            <<K_what_you_did_well, JStr(Ok)>>, <<K_improvement_tip, Doc(<<>>)>> >>),
     Doc(<< <<K_score, JInt(90)>>, <<K_stars, JInt(5)>> >>)}

Gaps == {<<>>, <<"\n", " ", " ">>}

\* brace-free prose before the object
Prefixes == {<<>>, <<"S", "u", "r", "e", "!", " ">>}

FenceOpens == {<<>>, FenceJson \o <<"\n">>, Fence \o <<"\n">>}

FenceCloses == {<<>>, <<"\n">> \o Fence}

\* brace-free prose after the object
Suffixes == {<<>>, <<"\n", "B", "y", "e">>}

Wrap(prefix, open, body, close, suffix) ==
    prefix \o open \o body \o close \o suffix

\* texts that hold no well-formed object
BrokenBodies ==
    {<<>>,
     <<"G", "r", "e", "a", "t", " ", "j", "o", "b">>,
     <<"{">>,
     <<"}">>,
     <<"}", " ", "{">>,
     <<"{", "o", "o", "p", "s", "}">>,
     <<"{", "\"", "s", "c", "o", "r", "e", "\"", ":", "9", "0", ",", "}">>,
     <<"{", "\"", "s", "c", "o", "r", "e", "\"", ":", "9", "0">>,
     <<"{", "}", " ", "{", "}">>,
     <<"{", "\"", "s", "c", "o", "r", "e", "\"", ":", "}">>}

\* the runs of the parser: a text, and the document wrapped in it if any
ParserInputs ==
    {[text |-> Wrap(p, o, Encode(d, g), c, x), doc |-> d] :
        p \in Prefixes, o \in FenceOpens, d \in CompleteDocs \cup PartialDocs,
        g \in Gaps, c \in FenceCloses, x \in Suffixes}
    \cup
    {[text |-> Wrap(p, o, b, c, x), doc |-> NoDocument] :
        p \in Prefixes, o \in FenceOpens, b \in BrokenBodies,
        c \in FenceCloses, x \in Suffixes}

ParseInit ==
    /\ conversations = [id \in SessionIds |-> 0]
    /\ heap = [o \in Slots |-> NoObject]
    /\ last = [op |-> "none"]
    /\ assessments = [o \in Slots |-> 0]
    /\ failures = 0
    /\ \E in \in ParserInputs : raw = in.text /\ embedded = in.doc
    /\ parsed = NotParsed
    /\ race = NoRace

\* the assessment call returns raw on a final turn
ParseAssessment ==
    /\ parsed = NotParsed
    /\ parsed' = [done |-> TRUE, assessment |-> final_assessment(Returns(raw))]
    /\ UNCHANGED <<conversations, heap, last, assessments, failures, raw, embedded, race>>

SpecParse == ParseInit /\ [][ParseAssessment]_vars

----------------------------------------------------------------------------
(* Two send_message requests for one session on two threads of the server. *)
(* A thread goes through send_message and get_response statement by        *)
(* statement; turn_count += 1 is a read and a write, list.append is one    *)
(* step.                                                                   *)

RaceSessionId == "s1"

ThreadMessage(t) == IF t = "t1" THEN <<"h", "i">> ELSE <<"y", "o">>

\* the session after start_session and n - 1 send_message, no call failing
RECURSIVE Practised(_)
Practised(n) ==
    IF n = 1
    THEN get_response(ConversationManager(DefaultTopic, DefaultLesson, L_english),
                      Greeting, Returns(<<"o", "k">>), Raises).self
    ELSE get_response(Practised(n - 1), <<"h", "i">>, Returns(<<"o", "k">>), Raises).self

\* the turn counts the two requests find
RaceStarts == {1, 8}

NoResponse == [status |-> "none"]

RaceInit ==
    /\ \E n \in RaceStarts :
          /\ heap = [o \in Slots |-> IF o = 1 THEN Practised(n) ELSE NoObject]
          /\ race = [before |-> n,
                     thread |-> [t \in Threads |->
                                    [pc |-> "start", conversation |-> 0, tmp |-> 0,
                                     assistant_message |-> <<>>,
                                     response |-> NoResponse]]]
    /\ conversations = [id \in SessionIds |-> IF id = RaceSessionId THEN 1 ELSE 0]
    /\ last = [op |-> "none"]
    /\ assessments = [o \in Slots |-> 0]
    /\ failures = 0
    /\ raw = <<>>
    /\ embedded = NoDocument
    /\ parsed = NotParsed

At(t, pc) == race.thread[t].pc = pc

\* thread t moves on with the fields of its record changed to rec
Step(t, rec) == race' = [race EXCEPT !.thread[t] = rec]

RaceFrame == UNCHANGED <<conversations, last, assessments, raw, embedded, parsed>>

\* send_message finds the session; add_message appends the user Turn
AppendUser ==
    \E t \in Threads :
        /\ At(t, "start")
        /\ conversations[RaceSessionId] # 0
        /\ heap' = [heap EXCEPT ![conversations[RaceSessionId]].history =
                        Append(@, [role |-> "user", content |-> ThreadMessage(t)])]
        /\ Step(t, [race.thread[t] EXCEPT !.pc = "read",
                        !.conversation = conversations[RaceSessionId]])
        /\ RaceFrame /\ UNCHANGED failures

\* self.turn_count += 1, the read
ReadTurnCount ==
    \E t \in Threads :
        /\ At(t, "read")
        /\ Step(t, [race.thread[t] EXCEPT !.pc = "write",
                        !.tmp = heap[race.thread[t].conversation].turn_count])
        /\ RaceFrame /\ UNCHANGED <<heap, failures>>

\* self.turn_count += 1, the write
WriteTurnCount ==
    \E t \in Threads :
        /\ At(t, "write")
        /\ heap' = [heap EXCEPT ![race.thread[t].conversation].turn_count =
                        race.thread[t].tmp + 1]
        /\ Step(t, [race.thread[t] EXCEPT !.pc = "generate"])
        /\ RaceFrame /\ UNCHANGED failures

\* model.generate_content(context): a reply, or the exception that ends the
\* request with an error response
GenerateReply ==
    \E t \in Threads, reply \in ReplyCalls :
        /\ At(t, "generate")
        /\ ~reply.ok => failures < MaxFail
        /\ failures' = failures + (IF reply.ok THEN 0 ELSE 1)
        /\ Step(t, IF reply.ok
                   THEN [race.thread[t] EXCEPT !.pc = "append",
                            !.assistant_message = str_strip(reply.text)]
                   ELSE [race.thread[t] EXCEPT !.pc = "done",
                            !.response = [status |-> "error", code |-> 200,
                                          message |-> "LLMError"]])
        /\ RaceFrame /\ UNCHANGED heap

\* add_message("assistant", assistant_message)
AppendAssistant ==
    \E t \in Threads :
        /\ At(t, "append")
        /\ heap' = [heap EXCEPT ![race.thread[t].conversation].history =
                        Append(@, [role |-> "assistant",
                                   content |-> race.thread[t].assistant_message])]
        /\ Step(t, [race.thread[t] EXCEPT !.pc = "test"])
        /\ RaceFrame /\ UNCHANGED failures

\* is_final = self.turn_count >= self.max_turns, and the result of
\* get_response: the assessment on a final turn, the reply otherwise
TestIsFinal ==
    \E t \in Threads, assess \in AssessCalls :
        /\ At(t, "test")
        /\ Step(t, [race.thread[t] EXCEPT !.pc = "respond",
                        !.response =
                            IF heap[race.thread[t].conversation].turn_count
                                  >= heap[race.thread[t].conversation].max_turns
                            THEN [is_final |-> TRUE,
                                  assessment |-> final_assessment(assess)]
                            ELSE [is_final |-> FALSE,
                                  message |-> race.thread[t].assistant_message]])
        /\ RaceFrame /\ UNCHANGED <<heap, failures>>

\* send_message answers with the result and the turn_count it reads now
Respond ==
    \E t \in Threads :
        /\ At(t, "respond")
        /\ Step(t, [race.thread[t] EXCEPT !.pc = "done",
                        !.response =
                            [status |-> "success", code |-> 200,
                             response |-> race.thread[t].response,
                             turn_count |-> heap[race.thread[t].conversation].turn_count,
                             max_turns |-> heap[race.thread[t].conversation].max_turns]])
        /\ RaceFrame /\ UNCHANGED <<heap, failures>>

NextRace ==
    \/ AppendUser
    \/ ReadTurnCount
    \/ WriteTurnCount
    \/ GenerateReply
    \/ AppendAssistant
    \/ TestIsFinal
    \/ Respond

SpecRace == RaceInit /\ [][NextRace]_vars

----------------------------------------------------------------------------
(* A start_session request on one thread, and a start_session or an        *)
(* end_session request for the same id on another.  start_session writes   *)
(* the registry, reads it again, and calls get_response on what it finds.  *)
(* Objects that neither the registry nor a request refers to are left in   *)
(* their slots.                                                            *)

StartRaceOps == {"start_session", "end_session"}

StartRaceInit ==
    /\ \E registered \in BOOLEAN, op2 \in StartRaceOps :
          /\ conversations = [id \in SessionIds |->
                                IF id = RaceSessionId /\ registered THEN 1 ELSE 0]
          /\ heap = [o \in Slots |->
                        IF o = 1 /\ registered THEN Practised(1) ELSE NoObject]
          /\ race = [before |-> 0,
                     thread |-> [t \in Threads |->
                        [op |-> IF t = "t1" THEN "start_session" ELSE op2,
                         pc |-> IF t = "t1" \/ op2 = "start_session"
                                THEN "create" ELSE "check",
                         created |-> 0, conversation |-> 0,
                         response |-> NoResponse]]]
    /\ last = [op |-> "none"]
    /\ assessments = [o \in Slots |-> 0]
    /\ failures = 0
    /\ raw = <<>>
    /\ embedded = NoDocument
    /\ parsed = NotParsed

StartRaceFrame == UNCHANGED <<last, assessments, raw, embedded, parsed>>

\* conversations[session_id] = ConversationManager(topic, lesson_content, language)
CreateSession ==
    \E t \in Threads :
        /\ At(t, "create")
        /\ heap' = [heap EXCEPT ![new_slot(heap)] =
                        ConversationManager(DefaultTopic, DefaultLesson, L_english)]
        /\ conversations' = [conversations EXCEPT ![RaceSessionId] = new_slot(heap)]
        /\ Step(t, [race.thread[t] EXCEPT !.pc = "lookup", !.created = new_slot(heap)])
        /\ StartRaceFrame /\ UNCHANGED failures

\* conversations[session_id], read again: the object there now, or KeyError
LookupSession ==
    \E t \in Threads :
        /\ At(t, "lookup")
        /\ Step(t, IF conversations[RaceSessionId] = 0
                   THEN [race.thread[t] EXCEPT !.pc = "done",
                            !.response = [status |-> "error", code |-> 500,
                                          message |-> "KeyError"]]
                   ELSE [race.thread[t] EXCEPT !.pc = "greet",
                            !.conversation = conversations[RaceSessionId]])
        /\ StartRaceFrame /\ UNCHANGED <<conversations, heap, failures>>

\* the object at slot o answers the greeting with out; the response is that
\* of start_session
Greeted(t, o, out) ==
    /\ heap' = [heap EXCEPT ![o] = out.self]
    /\ failures' = failures + (IF out.raised THEN 1 ELSE 0)
    /\ Step(t, [race.thread[t] EXCEPT !.pc = "done",
                    !.response =
                        start_session_respond(conversations, heap, RaceSessionId,
                                              L_english, o, out).response])

\* .get_response("Hello, I'm ready to practice!") and the response
GreetSession ==
    \E t \in Threads, reply \in ReplyCalls, assess \in AssessCalls :
        /\ At(t, "greet")
        /\ ~reply.ok => failures < MaxFail
        /\ Greeted(t, race.thread[t].conversation,
                   get_response(heap[race.thread[t].conversation], Greeting,
                                reply, assess))
        /\ StartRaceFrame /\ UNCHANGED conversations

\* end_session: if session_id in conversations
CheckSession ==
    \E t \in Threads :
        /\ At(t, "check")
        /\ Step(t, IF conversations[RaceSessionId] # 0
                   THEN [race.thread[t] EXCEPT !.pc = "delete"]
                   ELSE [race.thread[t] EXCEPT !.pc = "done",
                            !.response = [status |-> "success", code |-> 200]])
        /\ StartRaceFrame /\ UNCHANGED <<conversations, heap, failures>>

\* end_session: del conversations[session_id]; KeyError leaves the handler
DeleteSession ==
    \E t \in Threads :
        /\ At(t, "delete")
        /\ conversations' = [conversations EXCEPT ![RaceSessionId] = 0]
        /\ Step(t, [race.thread[t] EXCEPT !.pc = "done",
                        !.response =
                            IF conversations[RaceSessionId] # 0
                            THEN [status |-> "success", code |-> 200]
                            ELSE [status |-> "error", code |-> 500,
                                  message |-> "KeyError"]])
        /\ StartRaceFrame /\ UNCHANGED <<heap, failures>>

NextStartRace ==
    \/ CreateSession
    \/ LookupSession
    \/ GreetSession
    \/ CheckSession
    \/ DeleteSession

SpecStartRace == StartRaceInit /\ [][NextStartRace]_vars

----------------------------------------------------------------------------
(* A session that is started once and never ended, with messages that     *)
(* keep coming: the server answers every request it is sent, and of the    *)
(* reply calls at most MaxFail raise.                                      *)

\* the ids the clients of these runs use
LiveIds == {"s1"}

\* start_session for an id that is not registered
StartFresh ==
    \E session_id \in LiveIds, language \in LanguageInputs,
       reply \in ReplyCalls, assess \in AssessCalls :
        /\ conversations[session_id] = 0
        /\ ~reply.ok => failures < MaxFail
        /\ Handled("start_session", session_id, reply,
                   start_session(conversations, heap, session_id, DefaultTopic,
                                 DefaultLesson, language, reply, assess))

\* send_message for session_id, its reply call ending as reply; a session
\* is sent no more once it has counted MaxTurnCap user turns
Submit(session_id, reply) ==
    \E user_message \in UserMessages, assess \in AssessCalls :
        /\ ~reply.ok => failures < MaxFail
        /\ conversations[session_id] # 0 =>
              heap[conversations[session_id]].turn_count < MaxTurnCap
        /\ Handled("send_message", session_id, reply,
                   send_message(conversations, heap, session_id, user_message,
                                reply, assess))

SubmitMessage ==
    \E session_id \in LiveIds, reply \in ReplyCalls : Submit(session_id, reply)

\* a send_message for the registered session_id whose reply call succeeds
SubmitOk(session_id) ==
    /\ conversations[session_id] # 0
    /\ \E reply \in ReplyCalls : reply.ok /\ Submit(session_id, reply)

NextLive == StartFresh \/ SubmitMessage

Fairness == \A session_id \in LiveIds : WF_vars(SubmitOk(session_id))

SpecLive == Init /\ [][NextLive]_vars /\ Fairness

----------------------------------------------------------------------------
(* Properties *)

Registered(id) == conversations[id] # 0

\* the session registered under id
Session(id) == heap[conversations[id]]

Live(o) == heap[o] # NoObject

\* the last request was a submission that came back with a result
LastReturned ==
    /\ last.op \in {"start_session", "send_message"}
    /\ last.response.status = "success"

\* ... and the result was final
LastIsFinal ==
    /\ last.op = "send_message"
    /\ last.response.status = "success"
    /\ last.response.response.is_final

\* C1: a submission that returns a result returns isFinal=true exactly when it
\* brought the session's turnCount to maxTurns; at no other turnCount is a
\* final result returned.
C1_FinalExactlyAtMaxTurns ==
    LastReturned =>
        (LastIsFinal <=> Session(last.session_id).turn_count = MaxTurns)

\* C2: an object's turnCount never decreases; a new object has counted only
\* its greeting (0 at construction, plus one user turn); every accepted
\* send_message adds exactly 1, whether or not an assistant turn was appended
\* in the same call; nothing else changes a turnCount.
C2_TurnCountStep ==
    /\ \A o \in Slots :
          /\ (Live(o) /\ heap'[o] # NoObject) =>
                heap'[o].turn_count >= heap[o].turn_count
          /\ (~Live(o) /\ heap'[o] # NoObject) =>
                /\ last'.op = "start_session"
                /\ heap'[o].turn_count = 1
          /\ (Live(o) /\ heap'[o] # NoObject /\ heap'[o].turn_count # heap[o].turn_count) =>
                /\ last'.op = "send_message"
                /\ conversations[last'.session_id] = o
    /\ (last'.op = "send_message" /\ conversations[last'.session_id] # 0) =>
          /\ heap'[conversations[last'.session_id]] # NoObject
          /\ heap'[conversations[last'.session_id]].turn_count =
                heap[conversations[last'.session_id]].turn_count + 1

C2_TurnCountStepsByOne == [][C2_TurnCountStep]_vars

\* a third submission was accepted and answered: three user turns and three
\* assistant turns, turnCount 3
C2_Witness ==
    /\ last.op = "send_message"
    /\ last.found
    /\ last.response.status = "success"
    /\ Session(last.session_id).turn_count = 3
    /\ Len(Session(last.session_id).history) = 6

\* C3: no session object returns more than one assessment.
C3_OneAssessmentPerSession == \A o \in Slots : assessments[o] <= 1

\* C4: the turnCount of every registered session is within 0..maxTurns.
C4_TurnCountWithinMaxTurns ==
    \A id \in SessionIds :
        Registered(id) => Session(id).turn_count \in 0..MaxTurns

\* C5: send_message for an id that is not in the registry answers with the
\* error "Session not found", makes no LLM call, and leaves the registry and
\* every session object as they were.
C5_MissingSessionStep ==
    (last'.op = "send_message" /\ conversations[last'.session_id] = 0) =>
        /\ last'.response.status = "error"
        /\ last'.response.message = "Session not found"
        /\ last'.llm_calls = 0
        /\ conversations' = conversations
        /\ heap' = heap

C5_MissingSessionRejected == [][C5_MissingSessionStep]_vars

\* a submission for a missing id was refused while another session was in use
C5_Witness ==
    /\ last.op = "send_message"
    /\ ~last.found
    /\ last.response.status = "error"
    /\ ~Registered(last.session_id)
    /\ \E id \in SessionIds : Registered(id) /\ Session(id).turn_count >= 2

\* C6: start_session for an id already in the registry answers with an error
\* and leaves the registry and the existing session as they were.
C6_DuplicateStartStep ==
    (last'.op = "start_session" /\ conversations[last'.session_id] # 0) =>
        /\ last'.response.status = "error"
        /\ conversations' = conversations
        /\ heap' = heap

C6_DuplicateStartRejected == [][C6_DuplicateStartStep]_vars

\* C7: end_session always answers success and leaves its id unregistered and
\* every other id as it was; on an id that is not registered (ended before, or
\* never started) it changes nothing; a send_message for the id right after
\* its end_session is refused with "Session not found".
C7_EndStep ==
    /\ last'.op = "end_session" =>
          /\ last'.response.status = "success"
          /\ conversations'[last'.session_id] = 0
          /\ \A id \in SessionIds \ {last'.session_id} :
                /\ conversations'[id] = conversations[id]
                /\ conversations[id] # 0 =>
                      heap'[conversations[id]] = heap[conversations[id]]
          /\ conversations[last'.session_id] = 0 =>
                (conversations' = conversations /\ heap' = heap)
    /\ (/\ last.op = "end_session"
        /\ last'.op = "send_message"
        /\ last'.session_id = last.session_id) =>
          /\ last'.response.status = "error"
          /\ last'.response.message = "Session not found"

C7_EndIdempotent == [][C7_EndStep]_vars

\* end_session was answered for an id that was not registered, with another
\* session in the registry
C7_Witness ==
    /\ last.op = "end_session"
    /\ ~last.found
    /\ last.response.status = "success"
    /\ \E id \in SessionIds : Registered(id)

\* a value is a JSON string / an integer within lo..hi
IsStr(v) == v.t = "str"
IsIntIn(v, lo, hi) == v.t = "int" /\ v.n >= lo /\ v.n <= hi

\* score in 0..100, stars in 1..5, the text fields present and strings
ValidAssessment(a) ==
    /\ a.t = "obj"
    /\ required_fields \subseteq DOMAIN a.d
    /\ IsIntIn(a.d[K_score], 0, 100)
    /\ IsIntIn(a.d[K_stars], 1, 5)
    /\ IsStr(a.d[K_message])
    /\ IsStr(a.d[K_what_you_did_well])
    /\ a.d[K_improvement_tip].t = "obj"
    /\ \A k \in {K_what_they_said, K_better_way, K_explanation} :
          /\ k \in DOMAIN a.d[K_improvement_tip].d
          /\ IsStr(a.d[K_improvement_tip].d[k])

\* C8: whatever text the assessment call returns, the assessment returned is
\* structurally valid.
C8_AssessmentAlwaysValid == parsed.done => ValidAssessment(parsed.assessment)

\* the cleaned text has both braces, its candidate decodes, and the decoded
\* object has every required field
HasBraces(text) ==
    str_contains(cleaned_text(text), "{") /\ str_contains(cleaned_text(text), "}")

Decodes(text) == json_loads(json_candidate(cleaned_text(text))).ok

Accepted(text) ==
    /\ HasBraces(text)
    /\ Decodes(text)
    /\ required_fields \subseteq
          DOMAIN json_loads(json_candidate(cleaned_text(text))).val.d

\* C9: whenever the text is not accepted, the assessment returned is the one
\* fixed default with score 85 and stars 4, whatever the reason.
C9_OneDefaultOnRejection ==
    (parsed.done /\ ~Accepted(raw)) =>
        /\ parsed.assessment = fallback_assessment
        /\ parsed.assessment.d[K_score] = JInt(85)
        /\ parsed.assessment.d[K_stars] = JInt(4)

\* C10: a well-formed object with every required field, wrapped in fences and
\* brace-free prose, comes back as exactly that object.
C10_RoundTrip ==
    (parsed.done /\ embedded \in CompleteDocs) =>
        parsed.assessment = DocValue(embedded)

\* s is the beginning of t
IsPrefix(s, t) == Len(s) <= Len(t) /\ SubSeq(t, 1, Len(s)) = s

\* the last request was a send_message for a registered id
LastSubmitted == last.op = "send_message" /\ last.found

\* a send_message step for a registered id whose reply call raises
ReplyFailsStep ==
    /\ last'.op = "send_message"
    /\ conversations[last'.session_id] # 0
    /\ last'.llm_calls = 1
    /\ last'.failed

\* C11: when the reply call of a send_message raises, the request answers
\* with an error and the session keeps the new user Turn as its last history
\* entry, with no assistant Turn for it and turnCount one higher; a
\* send_message of the same text right after appends a second, equal user
\* Turn behind the first and increments turnCount again.
C11_FailedReplyStep ==
    /\ ReplyFailsStep =>
          LET o == conversations[last'.session_id]
              h == heap[conversations[last'.session_id]].history
              h2 == heap'[conversations[last'.session_id]].history
          IN  /\ last'.response.status = "error"
              /\ conversations' = conversations
              /\ Len(h2) = Len(h) + 1
              /\ IsPrefix(h, h2)
              /\ h2[Len(h2)].role = "user"
              /\ heap'[o].turn_count = heap[o].turn_count + 1
              /\ heap' = [heap EXCEPT ![o] =
                            [@ EXCEPT !.turn_count = @ + 1, !.history = h2]]
    /\ (/\ LastSubmitted /\ last.llm_calls = 1 /\ last.failed
        /\ last'.op = "send_message"
        /\ last'.session_id = last.session_id) =>
          LET h == Session(last.session_id).history
              h2 == heap'[conversations[last.session_id]].history
          IN  /\ h[Len(h)].role = "user"
              /\ Len(h2) > Len(h)
              /\ IsPrefix(h, h2)
              /\ h2[Len(h) + 1].role = "user"
              /\ heap'[conversations[last.session_id]].turn_count
                    = Session(last.session_id).turn_count + 1
              /\ h2[Len(h) + 1].content = h[Len(h)].content =>
                    h2[Len(h) + 1] = h[Len(h)]

C11_FailedReplyNotRolledBack == [][C11_FailedReplyStep]_vars

\* a submission was answered after the one before it had failed: the history
\* ends with the orphaned user Turn, its duplicate, and the assistant Turn
C11_Witness ==
    /\ LastSubmitted
    /\ last.response.status = "success"
    /\ Len(Session(last.session_id).history) >= 5
    /\ LET h == Session(last.session_id).history
       IN  /\ h[Len(h)].role = "assistant"
           /\ h[Len(h) - 1].role = "user"
           /\ h[Len(h) - 2] = h[Len(h) - 1]
           /\ 2 * Session(last.session_id).turn_count = Len(h) + 1

\* C12: a start_session or send_message request one of whose LLM calls
\* failed (the reply call, or the assessment call on the final turn) answers
\* with status "error", never with "success".
C12_LLMFailureIsError ==
    (last.op \in {"start_session", "send_message"} /\ last.failed) =>
        last.response.status = "error"

\* C14: an accepted send_message makes one or two LLM calls, never none and
\* never more; one when it returns isFinal=false, two when it returns
\* isFinal=true; the second call is made only after the reply call succeeded
\* and its assistant Turn was appended.
C14_OneOrTwoLLMCalls ==
    LastSubmitted =>
        /\ last.llm_calls \in {1, 2}
        /\ last.response.status = "success" =>
              (last.llm_calls = IF last.response.response.is_final THEN 2 ELSE 1)
        /\ last.llm_calls = 2 =>
              /\ last.reply.ok
              /\ LET h == Session(last.session_id).history
                 IN  h[Len(h)] = [role |-> "assistant",
                                  content |-> str_strip(last.reply.text)]

\* a final turn: the reply call, then the assessment call
C14_Witness ==
    /\ LastSubmitted
    /\ last.response.status = "success"
    /\ last.response.response.is_final
    /\ last.llm_calls = 2

\* C15: the TTS locale a start_session or a send_message uses is the entry of
\* the session's lower-cased language identifier when that is one of the
\* seven supported languages and the English entry otherwise, so both
\* requests of one session use the same locale, whatever the letter-casing of
\* the identifier the session was started with.
C15_LookupCaseInsensitive ==
    (last.op \in {"start_session", "send_message"} /\ last.tts_lang # "none") =>
        /\ get_system_prompt_config(Session(last.session_id))
              = dict_get(language_configs, Session(last.session_id).language, "English")
        /\ last.tts_lang = dict_get(tts_lang_map, Session(last.session_id).language, "en")

\* C16: a request for one sessionId leaves every session registered under
\* another sessionId registered and its object (history, turnCount, topic,
\* lessonContent, language) unchanged.
C16_IsolationStep ==
    \A b \in SessionIds :
        (b # last'.session_id /\ conversations[b] # 0) =>
            /\ conversations'[b] = conversations[b]
            /\ heap'[conversations[b]] = heap[conversations[b]]

C16_SessionsIsolated == [][C16_IsolationStep]_vars

\* a session was started over while another session was in use
C16_Witness ==
    /\ last.op = "start_session"
    /\ last.found
    /\ last.response.status = "success"
    /\ \E b \in SessionIds \ {last.session_id} :
          Registered(b) /\ Session(b).turn_count >= 3

\* C17: while a sessionId stays registered, the history registered under it
\* before a request is a prefix of the history registered under it after.
C17_HistoryStep ==
    \A id \in SessionIds :
        (conversations[id] # 0 /\ conversations'[id] # 0) =>
            IsPrefix(heap[conversations[id]].history, heap'[conversations'[id]].history)

C17_HistoryAppendOnly == [][C17_HistoryStep]_vars

\* C18: after a successful start_session the session has turnCount 1, below
\* maxTurns, and history [user greeting, assistant reply]; in a session none
\* of whose reply calls failed, a send_message returns isFinal=true when and
\* only when it is the 9th after the start (the 10th user message).
C18_StartThenNinthSendIsFinal ==
    /\ (last.op = "start_session" /\ last.response.status = "success") =>
          /\ Session(last.session_id).turn_count = 1
          /\ Session(last.session_id).turn_count < Session(last.session_id).max_turns
          /\ Session(last.session_id).history =
                <<[role |-> "user", content |-> Greeting],
                  [role |-> "assistant", content |-> last.response.initial_message]>>
    /\ (/\ LastSubmitted
        /\ last.response.status = "success"
        /\ Len(Session(last.session_id).history) = 2 * Session(last.session_id).turn_count) =>
          (last.response.response.is_final
              <=> Session(last.session_id).turn_count = 1 + 9)

\* the message a non-final start_session or send_message returned
LastNonFinal ==
    \/ last.op = "start_session" /\ last.response.status = "success"
    \/ /\ LastSubmitted
       /\ last.response.status = "success"
       /\ ~last.response.response.is_final

LastMessage ==
    IF last.op = "start_session" THEN last.response.initial_message
    ELSE last.response.response.message

\* C19: on a non-final turn the message returned is the text the reply call
\* gave, character for character, and it is the content of the assistant Turn
\* appended last to the history.
C19_MessageVerbatim ==
    LastNonFinal =>
        /\ LastMessage = last.reply.text
        /\ LET h == Session(last.session_id).history
           IN  h[Len(h)] = [role |-> "assistant", content |-> LastMessage]

\* C19, amended: on a non-final turn the message returned is the text the
\* reply call gave with its leading and trailing whitespace removed, and it
\* is the content of the assistant Turn appended last to the history.
C19_MessageIsStrippedReply ==
    LastNonFinal =>
        /\ last.reply.ok
        /\ LastMessage = str_strip(last.reply.text)
        /\ LET h == Session(last.session_id).history
           IN  h[Len(h)] = [role |-> "assistant", content |-> LastMessage]

\* a reply with whitespace around it was returned on a non-final turn
C19_Witness ==
    /\ LastSubmitted
    /\ LastNonFinal
    /\ last.reply.text # LastMessage
    /\ last.reply.text[1] \in Whitespace
    /\ Session(last.session_id).turn_count >= 3

Min(a, b) == IF a < b THEN a ELSE b

\* C20: the assessment prompt of a final turn holds the last
\* min(20, Len(history)) Turns of the history, in the order of the history,
\* the assistant reply appended in the same call being the last of them;
\* no earlier Turn is in it.
C20_PromptHoldsLastTwentyTurns ==
    (LastSubmitted /\ last.llm_calls = 2) =>
        LET h == Session(last.session_id).history
            k == Min(20, Len(h))
        IN  /\ Len(last.assessment_turns) = k
            /\ \A i \in 1..k : last.assessment_turns[i] = h[Len(h) - k + i]
            /\ last.assessment_turns[k] =
                  [role |-> "assistant", content |-> str_strip(last.reply.text)]

\* an assessment was asked for with more than 20 Turns in the history: the
\* prompt starts at the third
C20_Witness ==
    /\ LastSubmitted
    /\ last.llm_calls = 2
    /\ Len(Session(last.session_id).history) = 22
    /\ Len(last.assessment_turns) = 20
    /\ last.assessment_turns[1] = Session(last.session_id).history[3]
    /\ last.assessment_turns[1] # Session(last.session_id).history[1]

\* both requests of the concurrent run were answered with a result
BothAnswered ==
    \A t \in Threads :
        /\ race.thread[t].pc = "done"
        /\ race.thread[t].response.status = "success"

\* the Turns appended since the concurrent run began
RaceTurns ==
    SubSeq(Session(RaceSessionId).history, 2 * race.before + 1,
           Len(Session(RaceSessionId).history))

\* C13: when two send_message requests for one session run concurrently and
\* both are answered, turnCount has increased by exactly 2 and the history
\* holds both user Turns and both assistant Turns, behind the Turns it held.
C13_NoLostUpdate ==
    BothAnswered =>
        /\ Session(RaceSessionId).turn_count = race.before + 2
        /\ IsPrefix(Practised(race.before).history, Session(RaceSessionId).history)
        /\ Len(RaceTurns) = 4
        /\ \A t \in Threads :
              \E i \in 1..Len(RaceTurns) :
                  RaceTurns[i] = [role |-> "user", content |-> ThreadMessage(t)]
        /\ Cardinality({i \in 1..Len(RaceTurns) : RaceTurns[i].role = "assistant"}) = 2

\* the user Turns among the first n of history h
RECURSIVE UserTurns(_, _)
UserTurns(h, n) ==
    IF n = 0 THEN 0
    ELSE UserTurns(h, n - 1) + (IF h[n].role = "user" THEN 1 ELSE 0)

\* user, assistant, user, assistant, ...
Alternates(h) ==
    \A i \in 1..Len(h) : h[i].role = IF i % 2 = 1 THEN "user" ELSE "assistant"

\* C21: with requests handled one at a time, the turnCount of every session
\* object is the number of user Turns in its history; the history starts
\* with a user Turn and never holds two assistant Turns in a row; it lacks
\* at most one assistant Turn per failed reply call, and while no reply call
\* has failed it alternates user, assistant, ... and its length is
\* 2 * turnCount.
C21_TurnCountIsUserTurns ==
    \A o \in Slots :
        Live(o) =>
            /\ heap[o].turn_count = UserTurns(heap[o].history, Len(heap[o].history))
            /\ heap[o].history[1].role = "user"
            /\ \A i \in 2..Len(heap[o].history) :
                  heap[o].history[i].role = "assistant" =>
                      heap[o].history[i - 1].role = "user"
            /\ 2 * heap[o].turn_count - Len(heap[o].history) \in 0..failures
            /\ failures = 0 =>
                  /\ Alternates(heap[o].history)
                  /\ Len(heap[o].history) = 2 * heap[o].turn_count

\* five exchanges, no call failed
C21_Witness ==
    /\ LastSubmitted
    /\ failures = 0
    /\ Session(last.session_id).turn_count = 5
    /\ Len(Session(last.session_id).history) = 10

\* C22: a send_message whose reply call succeeds, on a session whose
\* turnCount already is maxTurns or more (the reply call of the submission
\* that reached maxTurns failed, so no assessment was returned), returns
\* isFinal=true with an assessment, turnCount then being above maxTurns.
C22_LateFinalStep ==
    (/\ last'.op = "send_message"
     /\ conversations[last'.session_id] # 0
     /\ heap[conversations[last'.session_id]].turn_count >= MaxTurns
     /\ last'.reply.ok) =>
        /\ last'.response.status = "success"
        /\ last'.response.response.is_final
        /\ "assessment" \in DOMAIN last'.response.response
        /\ last'.response.turn_count > MaxTurns
        /\ assessments'[conversations[last'.session_id]]
              = assessments[conversations[last'.session_id]] + 1

C22_NotStuckActive == [][C22_LateFinalStep]_vars

\* the first assessment of a session came at turnCount maxTurns + 1: the
\* reply call had failed at maxTurns
C22_Witness ==
    /\ LastSubmitted
    /\ last.response.status = "success"
    /\ last.response.response.is_final
    /\ Session(last.session_id).turn_count = MaxTurns + 1
    /\ Len(Session(last.session_id).history) = 2 * MaxTurns + 1
    /\ assessments[conversations[last.session_id]] = 1

\* C25: a start_session that answers with an error leaves no session of its
\* own behind: the registry and the objects are as they were before it, so
\* an id that was not registered is not registered after it either, and a
\* send_message for that id right after is refused.
C25_FailedStartStep ==
    /\ (last'.op = "start_session" /\ last'.response.status = "error") =>
          /\ conversations' = conversations
          /\ heap' = heap
    /\ (/\ last.op = "start_session"
        /\ last.response.status = "error"
        /\ ~last.found
        /\ last'.op = "send_message"
        /\ last'.session_id = last.session_id) =>
          /\ last'.response.status = "error"
          /\ last'.response.message = "Session not found"

C25_FailedStartLeavesNothing == [][C25_FailedStartStep]_vars

\* what the request thread t got back from get_response, if it has
ThreadFinal(t) ==
    \/ /\ race.thread[t].pc = "respond"
       /\ race.thread[t].response.is_final
    \/ /\ race.thread[t].pc = "done"
       /\ race.thread[t].response.status = "success"
       /\ race.thread[t].response.response.is_final

\* C23: of two interleaved send_message requests for one session, one
\* returns isFinal=true only if its own increment wrote maxTurns, and at
\* most one of them returns an assessment.
C23_FinalOnlyForOwnTurn ==
    /\ \A t \in Threads : ThreadFinal(t) => race.thread[t].tmp + 1 = MaxTurns
    /\ Cardinality({t \in Threads : ThreadFinal(t)}) <= 1

\* request thread t is a start_session that has read the registry again
StartLookedUp(t) ==
    /\ race.thread[t].op = "start_session"
    /\ race.thread[t].pc \in {"greet", "done"}

\* C24: a start_session interleaved with an end_session or another
\* start_session for the same id does not fail with a missing key, submits
\* its greeting to the object it created itself, and no session object
\* counts more than the one greeting.
C24_StartGreetsOwnSession ==
    /\ \A t \in Threads :
          StartLookedUp(t) =>
              /\ race.thread[t].conversation = race.thread[t].created
              /\ race.thread[t].response.status = "error" =>
                    race.thread[t].response.message # "KeyError"
    /\ \A o \in Slots : Live(o) => heap[o].turn_count <= 1

\* the session registered under id has returned an assessment
Assessed(id) == Registered(id) /\ assessments[conversations[id]] >= 1

\* C26: a registered session that is never ended and keeps being sent
\* messages whose reply calls eventually succeed returns isFinal=true with
\* an assessment in the end; and no send_message makes more than two LLM
\* calls.
C26_EventuallyFinal ==
    /\ \A id \in LiveIds : Registered(id) ~> Assessed(id)
    /\ [](last.op = "send_message" => last.llm_calls <= 2)

\* a session was assessed although a reply call had failed on the way
C26_Witness ==
    /\ LastSubmitted
    /\ last.response.status = "success"
    /\ last.response.response.is_final
    /\ Assessed(last.session_id)
    /\ failures >= 1
    /\ Len(Session(last.session_id).history) < 2 * Session(last.session_id).turn_count

=============================================================================
